---- MODULE Spec2Model ----
(***************************************************************************)
(* The WhatsApp session connection manager of src/whatsappBaileys.ts:      *)
(* the module globals sock / isConnected / qrCode, the credential          *)
(* directory AUTH_DIR, the asynchronous connect attempts of                *)
(* initWhatsAppConnection, the connection.update / creds.update handlers,  *)
(* enviarMensagemBaileys, getWhatsAppStatus and disconnectWhatsApp.        *)
(* The Baileys socket (the Transport) is the environment: it delivers      *)
(* lifecycle events of every socket that was created and not yet closed.   *)
(***************************************************************************)
EXTENDS Integers, FiniteSets, Sequences, TLC

\* ------------------------------------------------------------------ bounds
\* how many sockets can be live (made and not yet closed) at the same time
MaxTransports == 2
\* initWhatsAppConnection calls that can be suspended at an await at once
MaxAttempts == 1
\* disconnectWhatsApp calls that can be suspended at `await sock.logout()`
MaxLogouts == 1
\* distinct pairing (QR) codes the transport can report
MaxCode == 2
\* distinct credential blobs the transport can rotate to
MaxBlob == 2
\* length of the phone numbers whose formatting is enumerated
MaxTelefone == 3
\* number of times the formatting is applied in a row
MaxVezes == 2
\* number of rows the mensagens table grows to
MaxMensagens == 1
\* number of products
MaxProdutos == 1
\* largest quantidade of one atualizarEstoque call
MaxQuantidade == 2
\* number of atualizarEstoque calls in flight at once
MaxCalls == 2
\* number of rows movimentacoesEstoque grows to
MaxMovimentacoes == 3
\* number of items of one sale
MaxItens == 2
\* number of sales
MaxVendas == 1
\* number of upsertConfigWhatsapp calls in flight at once
MaxUpserts == 2

\* `null` of the source (sock, qrCode) and "absent" of the credential store
NULL == 0

Codes == 1..MaxCode
Blobs == 1..MaxBlob

\* DisconnectReason of the transport library, as carried by
\* lastDisconnect.error.output.statusCode; "none" is a close with no error
Reasons == {"loggedOut", "connectionLost", "none"}

\* where a suspended initWhatsAppConnection call stands:
\*   "auth"       awaiting useMultiFileAuthState            (line 26)
\*   "versionNew" awaiting fetchLatestBaileysVersion, its auth state holds
\*                fresh (unpaired) credentials               (line 27)
\*   "versionReg" the same, its auth state holds the persisted credentials
AttemptPcs == {"auth", "versionNew", "versionReg"}

VARIABLES
    sock,          \* line 10: "null", or the state of the socket it refers to
    isConnected,   \* line 11
    qrCode,        \* line 12: a code or NULL
    authDirExists, \* whether AUTH_DIR exists on disk
    credsFile,     \* the credential blob persisted in AUTH_DIR, or NULL
    superseded,    \* LiveKinds -> number of live sockets sock no longer
                   \* refers to (their handlers are still installed)
    attempts,      \* AttemptPcs -> number of suspended connect attempts
    logoutPending, \* disconnectWhatsApp calls suspended at sock.logout()
    tableState,    \* history: the state the transition table predicts
                   \* ("Off" where the table is not run alongside)
    since,         \* history: the latest of explicit connect / close / logout
                   \* ("off" where it is not recorded)
    last,          \* history: the operation that ran last and what it
                   \* returned; for a close, success tells whether
                   \* isConnected was true when the event arrived
    formatado,     \* a phone number and what the formatting of lines 90-95
                   \* makes of it, applied again and again (NaoFormatado
                   \* where no number is followed)
    mensagens,     \* the rows of the mensagens table, oldest first
    estoque,       \* the estoque table: for each product whether it has a
                   \* row, and the quantidade of the row
    movimentacoes, \* the rows of movimentacoesEstoque, oldest first
    calls,         \* the atualizarEstoque calls in flight: where each is
                   \* suspended, its arguments and the row it read
    vendas,        \* the number of rows of the vendas table (the ids are
                   \* 1..vendas)
    itensVenda,    \* the rows of the itensVenda table, oldest first
    configWhatsapp, \* the rows of the configWhatsapp table, by ascending id
    upserts        \* the upsertConfigWhatsapp calls in flight: where each is
                   \* suspended, its config and the id of the row it read

\* everything outside the session manager
stockVars == <<estoque, movimentacoes, calls>>

salesVars == <<vendas, itensVenda>>

configVars == <<configWhatsapp, upserts>>

outside == <<formatado, mensagens, stockVars, salesVars, configVars>>

vars == <<sock, isConnected, qrCode, authDirExists, credsFile, superseded,
          attempts, logoutPending, tableState, since, last, formatado,
          mensagens, estoque, movimentacoes, calls, vendas, itensVenda,
          configWhatsapp, upserts>>

\* ----------------------------------------------------------------- helpers
\* The states of a socket that was made and has not closed: connecting with
\* fresh (unpaired) credentials, connecting with registered credentials,
\* showing a pairing code, open. A socket that has closed is "closed".
LiveKinds == {"connectingNew", "connectingReg", "pairing", "open"}

SockStates == {"null", "closed"} \cup LiveKinds

\* a socket an event comes from: the one sock refers to, or a superseded
\* one in state k
Sources == {"sock"} \cup LiveKinds

HasSource(w) == IF w = "sock" THEN sock \in LiveKinds ELSE superseded[w] > 0

KindOf(w) == IF w = "sock" THEN sock ELSE w

NumSuperseded == superseded["connectingNew"] + superseded["connectingReg"]
                 + superseded["pairing"] + superseded["open"]

\* the number of live Transport instances
NumLive == (IF sock \in LiveKinds THEN 1 ELSE 0) + NumSuperseded

NumAttempts == attempts["auth"] + attempts["versionNew"] + attempts["versionReg"]

\* the socket w moves to state k
Becomes(w, k) ==
    IF w = "sock"
    THEN sock' = k /\ UNCHANGED superseded
    ELSE /\ superseded' = IF k = "closed"
                          THEN [superseded EXCEPT ![w] = @ - 1]
                          ELSE [[superseded EXCEPT ![w] = @ - 1] EXCEPT ![k] = @ + 1]
         /\ UNCHANGED sock

Result(op, success, error, called) ==
    [op |-> op, success |-> success, error |-> error, called |-> called]

\* what `last` holds after an operation that returns nothing to a caller
Step == Result("step", TRUE, "", FALSE)

\* getWhatsAppStatus: a pure read of the two globals
getWhatsAppStatus == [connected |-> isConnected, qrCode |-> qrCode]

\* The connection state the implementation is in, read off the globals, the
\* connect attempts in flight and the socket the module holds.
ConnState ==
    IF isConnected THEN "Open"
    ELSE IF sock = "pairing" THEN "AwaitingPairing"
    ELSE IF NumAttempts > 0 \/ sock \in {"connectingNew", "connectingReg"}
         THEN "Connecting"
    ELSE "Disconnected"

\* ------------------------------------------------- the transition table
\* The state machine of the specification's transition table (section 4.2):
\* the state it predicts after event e in state s. A (state, event) pair the
\* table has no row for leaves the table without a prediction ("Unspecified").
TableStep(s, e) ==
    IF s \in {"Off", "Unspecified"} THEN s
    ELSE IF e = "connect" THEN (IF s = "Disconnected" THEN "Connecting" ELSE s)
    ELSE IF e = "pairing" THEN (IF s = "Connecting" THEN "AwaitingPairing" ELSE "Unspecified")
    ELSE IF e = "opened" THEN (IF s \in {"Connecting", "AwaitingPairing"} THEN "Open" ELSE "Unspecified")
    ELSE IF e = "rotated" THEN (IF s = "Open" THEN "Open" ELSE "Unspecified")
    ELSE IF e = "closedTransient" THEN (IF s # "Disconnected" THEN "Connecting" ELSE "Unspecified")
    ELSE IF e = "closedLoggedOut" THEN (IF s # "Disconnected" THEN "Disconnected" ELSE "Unspecified")
    ELSE IF e = "logout" THEN "Disconnected"
    ELSE "Unspecified"

\* the latest of: explicit connect ("none"), a close ("transient",
\* "loggedOut"), a logout that returned ("logout", or "logoutDuringConnect"
\* when a connect attempt was still in flight as it returned)
SinceStep(s, e) ==
    IF s = "off" THEN s
    ELSE IF e = "logout" /\ NumAttempts > 0 THEN "logoutDuringConnect"
    ELSE e

\* ------------------------------------------------------------------ Init
\* The state once the module has been loaded: line 149 has called
\* initWhatsAppConnection, which ran up to its first await (AUTH_DIR made,
\* useMultiFileAuthState pending). Credentials of an earlier run of the
\* process may be on disk.
Loaded ==
    /\ sock = "null"
    /\ isConnected = FALSE
    /\ qrCode = NULL
    /\ authDirExists = TRUE
    /\ credsFile \in {NULL} \cup Blobs
    /\ superseded = [k \in LiveKinds |-> 0]
    /\ attempts = [pc \in AttemptPcs |-> IF pc = "auth" THEN 1 ELSE 0]
    /\ logoutPending = 0
    /\ last = Step

\* no phone number is followed
NaoFormatado == [telefone |-> <<>>, vezes |-> -1, antes |-> <<>>, valor |-> <<>>]

\* nothing outside the session manager is being followed
Idle == formatado = NaoFormatado /\ mensagens = <<>>

UpsertIds == 1..MaxUpserts

\* an upsert slot nobody is using
NoUpsert == [pc |-> "idle", config |-> "", existing |-> 0]

\* no sale made, no configuration stored, no upsert in flight
EmptyTables ==
    /\ vendas = 0
    /\ itensVenda = <<>>
    /\ configWhatsapp = <<>>
    /\ upserts = [u \in UpsertIds |-> NoUpsert]

Produtos == 1..MaxProdutos

Quantidades == 1..MaxQuantidade

CallIds == 1..MaxCalls

\* a call slot nobody is using
NoCall == [pc |-> "idle", produtoId |-> 0, tipo |-> "", quantidade |-> 0, lido |-> 0]

\* the stock tables before any product is created, no call in flight
EmptyStock ==
    /\ estoque = [p \in Produtos |-> [existe |-> FALSE, quantidade |-> 0]]
    /\ movimentacoes = <<>>
    /\ calls = [c \in CallIds |-> NoCall]

Init == Loaded /\ Idle /\ EmptyStock /\ EmptyTables /\ tableState = "Off" /\ since = "off"

\* the same start, with the transition table and the latest terminal event
\* recorded alongside the program
InitHist == Loaded /\ Idle /\ EmptyStock /\ EmptyTables /\ tableState = "Connecting" /\ since = "none"

\* --------------------------------------------- initWhatsAppConnection
\* lines 20-26: the synchronous head of a call: make AUTH_DIR, then suspend
\* at useMultiFileAuthState
StartAttempt ==
    /\ attempts' = [attempts EXCEPT !["auth"] = @ + 1]
    /\ authDirExists' = TRUE

\* an explicit call of the exported initWhatsAppConnection
initWhatsAppConnection ==
    /\ NumAttempts < MaxAttempts
    /\ StartAttempt
    /\ tableState' = TableStep(tableState, "connect")
    /\ since' = SinceStep(since, "none")
    /\ UNCHANGED outside
    /\ last' = Step
    /\ UNCHANGED <<sock, isConnected, qrCode, credsFile, superseded, logoutPending>>

\* line 26 resolves: the auth state holds the persisted credentials, or
\* fresh ones when nothing is persisted
AuthStateLoaded ==
    /\ attempts["auth"] > 0
    /\ LET to == IF credsFile = NULL THEN "versionNew" ELSE "versionReg"
       IN  attempts' = [attempts EXCEPT !["auth"] = @ - 1, ![to] = @ + 1]
    /\ UNCHANGED outside
    /\ last' = Step
    /\ UNCHANGED <<sock, isConnected, qrCode, authDirExists, credsFile, superseded,
                   logoutPending, tableState, since>>

\* lines 68-71: an await of the attempt rejects, or makeWASocket throws; the
\* catch logs and returns {success: false}
AttemptFailed(pc) ==
    /\ attempts[pc] > 0
    /\ attempts' = [attempts EXCEPT ![pc] = @ - 1]
    /\ tableState' = TableStep(tableState, "connectFailed")
    /\ UNCHANGED outside
    /\ last' = Result("connectFailed", FALSE,
                      IF pc = "auth" THEN "PersistenceError" ELSE "TransportError", FALSE)
    /\ UNCHANGED <<sock, isConnected, qrCode, authDirExists, credsFile, superseded,
                   logoutPending, since>>

\* lines 27-67: fetchLatestBaileysVersion resolves, makeWASocket makes a new
\* socket, sock is overwritten with it and the two handlers are installed.
\* The socket sock held before is not closed.
SocketMade(pc) ==
    /\ pc \in {"versionNew", "versionReg"}
    /\ attempts[pc] > 0
    /\ NumLive < MaxTransports
    /\ attempts' = [attempts EXCEPT ![pc] = @ - 1]
    /\ superseded' = IF sock \in LiveKinds
                     THEN [superseded EXCEPT ![sock] = @ + 1] ELSE superseded
    /\ sock' = IF pc = "versionReg" THEN "connectingReg" ELSE "connectingNew"
    /\ UNCHANGED outside
    /\ last' = Step
    /\ UNCHANGED <<isConnected, qrCode, authDirExists, credsFile, logoutPending,
                   tableState, since>>

\* ------------------------------------------ the connection.update handler
\* lines 44-46 with === in place of !==
shouldReconnect_Inverted(reason) == reason = "loggedOut"

\* lines 44-46
shouldReconnect(reason) == reason # "loggedOut"

\* lines 35-63 with a handler that keeps the first pairing code it was given
connectionUpdate_KeepsFirstCode(qr, connection, reason) ==
    /\ qrCode' = IF connection = "open" THEN NULL
                 ELSE IF qr # NULL /\ qrCode = NULL THEN qr ELSE qrCode
    /\ isConnected' = IF connection = "close" THEN FALSE
                      ELSE IF connection = "open" THEN TRUE ELSE isConnected
    /\ IF connection = "close" /\ shouldReconnect(reason)
       THEN StartAttempt
       ELSE UNCHANGED <<attempts, authDirExists>>

\* lines 35-63: the handler of every socket writes the module globals; a
\* close that should reconnect calls initWhatsAppConnection (not awaited)
connectionUpdate(qr, connection, reason) ==
    /\ qrCode' = IF connection = "open" THEN NULL
                 ELSE IF qr # NULL THEN qr ELSE qrCode
    /\ isConnected' = IF connection = "close" THEN FALSE
                      ELSE IF connection = "open" THEN TRUE ELSE isConnected
    /\ IF connection = "close" /\ shouldReconnect(reason)
       THEN StartAttempt
       ELSE UNCHANGED <<attempts, authDirExists>>

\* -------------------------------------------------- the transport's events
\* the socket w reports a pairing code (it has no registered credentials
\* and is not open yet)
TransportQr(w, c) ==
    /\ HasSource(w)
    /\ KindOf(w) \in {"connectingNew", "pairing"}
    /\ Becomes(w, "pairing")
    /\ connectionUpdate(c, "none", "none")
    /\ tableState' = TableStep(tableState, "pairing")
    /\ UNCHANGED outside
    /\ last' = [op |-> "pairingCode", success |-> TRUE, error |-> "",
                called |-> FALSE, code |-> c]
    /\ UNCHANGED <<credsFile, logoutPending, since>>

\* the socket w reports connection = "open"
TransportOpened(w) ==
    /\ HasSource(w)
    /\ KindOf(w) # "open"
    /\ Becomes(w, "open")
    /\ connectionUpdate(NULL, "open", "none")
    /\ tableState' = TableStep(tableState, "opened")
    /\ UNCHANGED outside
    /\ last' = Step
    /\ UNCHANGED <<credsFile, logoutPending, since>>

\* the socket w reports connection = "close"; a closed socket delivers no
\* further event
TransportClosed(w, reason) ==
    /\ HasSource(w)
    /\ shouldReconnect(reason) => NumAttempts < MaxAttempts
    /\ Becomes(w, "closed")
    /\ connectionUpdate(NULL, "close", reason)
    /\ tableState' = TableStep(tableState,
                        IF reason = "loggedOut" THEN "closedLoggedOut" ELSE "closedTransient")
    /\ since' = SinceStep(since, IF reason = "loggedOut" THEN "loggedOut" ELSE "transient")
    /\ UNCHANGED outside
    /\ last' = Result(IF reason = "loggedOut" THEN "closedLoggedOut" ELSE "closedTransient",
                      isConnected, "", FALSE)
    /\ UNCHANGED <<credsFile, logoutPending>>

\* what a creds.update event leaves in `last`: whether saveCreds wrote, and
\* the credentials the socket reported when it did
Rotated(blob, ok) ==
    [op |-> "credsUpdate", success |-> ok,
     error |-> IF ok THEN "" ELSE "PersistenceError", called |-> FALSE,
     blob |-> IF ok THEN blob ELSE NULL]

\* line 65 with a handler that does not write
saveCreds_Dropped(w, blob, ok) ==
    /\ HasSource(w)
    /\ ok => authDirExists
    /\ tableState' = TableStep(tableState, "rotated")
    /\ UNCHANGED outside
    /\ last' = Rotated(blob, ok)
    /\ UNCHANGED <<sock, isConnected, qrCode, authDirExists, credsFile, superseded,
                   attempts, logoutPending, since>>

\* line 65: the socket w reports rotated credentials and saveCreds
\* writes the whole blob into AUTH_DIR; the write fails when the directory
\* is gone, and can fail on any I/O error
saveCreds(w, blob, ok) ==
    /\ HasSource(w)
    /\ ok => authDirExists
    /\ credsFile' = IF ok THEN blob ELSE credsFile
    /\ tableState' = TableStep(tableState, "rotated")
    /\ UNCHANGED outside
    /\ last' = Rotated(blob, ok)
    /\ UNCHANGED <<sock, isConnected, qrCode, authDirExists, superseded, attempts,
                   logoutPending, since>>

\* ------------------------------------------------------ phone formatting
\* A string is the sequence of its characters.
Digits == {"0", "1", "2", "3", "4", "5", "6", "7", "8", "9"}

\* the complement of the class \D of line 91
IsDigit(c) == c \in Digits

\* line 91: telefone.replace(/\D/g, "")
SoDigitos(telefone) == SelectSeq(telefone, IsDigit)

\* line 94: telefoneFormatado.startsWith("55")
StartsWith55(d) == Len(d) >= 2 /\ d[1] = "5" /\ d[2] = "5"

\* lines 94-96 with the prefix added whatever the number starts with
ComCodigoPais_Always(d) == <<"5", "5">> \o d

\* lines 94-96: add the country code unless the number starts with it
ComCodigoPais(d) == IF StartsWith55(d) THEN d ELSE <<"5", "5">> \o d

\* lines 91-96: the value of telefoneFormatado for a given telefone
telefoneFormatado(telefone) == ComCodigoPais(SoDigitos(telefone))

\* line 98 with the number as the caller gave it
jid_Unformatted(telefone) == [user |-> telefone, server |-> "s.whatsapp.net"]

\* line 98: the JID the number is sent to
jid(telefone) == [user |-> telefoneFormatado(telefone), server |-> "s.whatsapp.net"]

\* the characters the enumerated numbers are made of
Chars == {"5", "8", "(", " ", "-"}

\* "(88) 99671-0011", "88 99671-0011" and "5588996710011"
TelefoneComMascara ==
    <<"(", "8", "8", ")", " ", "9", "9", "6", "7", "1", "-", "0", "0", "1", "1">>

TelefoneComEspaco ==
    <<"8", "8", " ", "9", "9", "6", "7", "1", "-", "0", "0", "1", "1">>

TelefoneCompleto ==
    <<"5", "5", "8", "8", "9", "9", "6", "7", "1", "0", "0", "1", "1">>

Telefones ==
    UNION {[1..n -> Chars] : n \in 0..MaxTelefone}
        \cup {TelefoneComMascara, TelefoneComEspaco, TelefoneCompleto}

\* a phone number to format
InitFormat ==
    /\ Loaded /\ tableState = "Off" /\ since = "off"
    /\ \E t \in Telefones :
          formatado = [telefone |-> t, vezes |-> 0, antes |-> t, valor |-> t]
    /\ mensagens = <<>>
    /\ EmptyStock
    /\ EmptyTables

\* lines 91-96 applied to the value the last application gave
Formatar ==
    /\ formatado.vezes >= 0
    /\ formatado.vezes < MaxVezes
    /\ formatado' = [formatado EXCEPT !.vezes = @ + 1,
                                      !.antes = formatado.valor,
                                      !.valor = telefoneFormatado(formatado.valor)]
    /\ UNCHANGED <<sock, isConnected, qrCode, authDirExists, credsFile, superseded,
                   attempts, logoutPending, tableState, since, last, mensagens,
                   stockVars, salesVars, configVars>>

SpecFormat == InitFormat /\ [][Formatar]_vars

\* ------------------------------------------------- enviarMensagemBaileys
\* line 82 without the isConnected test
NotConnected_SockOnly(s, connected) == s = "null"

\* line 82
NotConnected(s, connected) == s = "null" \/ ~connected

\* the numbers and texts the sends of the model are made with
SendTelefones == {TelefoneComEspaco, TelefoneCompleto}

SendTextos == {"Seu pedido saiu para entrega", ""}

\* the text sent to each number
TextoPara(telefone) ==
    IF telefone = TelefoneComEspaco THEN "Seu pedido saiu para entrega" ELSE ""

\* result?.key?.id of line 100 as the transport gives it: an identifier, or
\* nothing ("", as falsy as undefined) when the result carries none
KeyIds == {"3EB0", ""}

\* line 105: result?.key?.id || "sent"
messageId(keyId) == IF keyId = "" THEN "sent" ELSE keyId

\* What a send that got to sock.sendMessage (line 100) leaves in `last`.
\* When the transport accepted: the arguments of the call, what the
\* transport was called with, the identifier it gave, and the value
\* returned (lines 103-106). When it failed: the failure (lines 110-113).
Sent(telefone, mensagem, accepted, keyId) ==
    IF accepted
    THEN [op |-> "send", success |-> TRUE, error |-> "", called |-> TRUE,
          telefone |-> telefone, mensagem |-> mensagem,
          to |-> jid(telefone), text |-> mensagem,
          keyId |-> keyId, messageId |-> messageId(keyId)]
    ELSE Result("send", FALSE, "TransportError", TRUE)

\* lines 81-116: the value enviarMensagemBaileys returns in the present state
resultado(telefone, mensagem, accepted, keyId) ==
    IF NotConnected(sock, isConnected)
    THEN Result("send", FALSE, "NotConnected", FALSE)
    ELSE Sent(telefone, mensagem, accepted, keyId)

\* lines 81-116 of a send that falls out of the connected state when the
\* transport fails
enviarMensagemBaileys_DropsOnFailure(telefone, mensagem, accepted, keyId) ==
    /\ UNCHANGED outside
    /\ last' = resultado(telefone, mensagem, accepted, keyId)
    /\ isConnected' = IF NotConnected(sock, isConnected) THEN isConnected ELSE accepted
    /\ UNCHANGED <<sock, qrCode, authDirExists, credsFile, superseded,
                   attempts, logoutPending, tableState, since>>

\* lines 81-116: the guard, then sock.sendMessage, which the transport
\* accepts, giving the message the key id keyId, or fails (accepted tells
\* which); the catch of line 107 turns a failure into a result; nothing of
\* the session changes
enviarMensagemBaileys(telefone, mensagem, accepted, keyId) ==
    /\ UNCHANGED outside
    /\ last' = resultado(telefone, mensagem, accepted, keyId)
    /\ UNCHANGED <<sock, isConnected, qrCode, authDirExists, credsFile, superseded,
                   attempts, logoutPending, tableState, since>>

\* a caller sends some text to some number
Send ==
    \E telefone \in SendTelefones, accepted \in BOOLEAN :
        \E keyId \in IF accepted THEN KeyIds ELSE {""} :
            enviarMensagemBaileys(telefone, TextoPara(telefone), accepted, keyId)

\* lines 122-127: a caller reads the status
StatusRead ==
    /\ UNCHANGED outside
    /\ last' = Result("status", TRUE, "", FALSE)
    /\ UNCHANGED <<sock, isConnected, qrCode, authDirExists, credsFile, superseded,
                   attempts, logoutPending, tableState, since>>

\* ------------------------------------------------------ mensagens.create
\* what getClienteById gives for the clienteId of the request: no client, a
\* client without a phone number, a client with one
Clientes == {[existe |-> FALSE, telefone |-> <<>>],
             [existe |-> TRUE, telefone |-> <<>>],
             [existe |-> TRUE, telefone |-> TelefoneComEspaco]}

\* part_001 lines 357-363: the row createMensagem is given. The input, the
\* status and the time of sending are its columns; the identifier the send
\* returned is not among them (messageId "" says the row holds none).
Row(conteudo, res) ==
    [conteudo |-> conteudo,
     status |-> IF res.success THEN "enviada" ELSE "erro",
     dataEnvio |-> IF res.success THEN "now" ELSE "null",
     messageId |-> ""]

\* part_001 lines 342-369: the mutation looks the client up (and throws
\* without one, or without a phone number), sends, stores the row, and
\* throws the error of a failed send or returns the identifier. `last`
\* holds what the caller gets and the number of calls of
\* enviarMensagemBaileys made.
mensagensCreate(cliente, conteudo, accepted, keyId) ==
    /\ Len(mensagens) < MaxMensagens
    /\ IF ~cliente.existe \/ cliente.telefone = <<>>
       THEN /\ last' = [op |-> "mensagensCreate", success |-> FALSE,
                        error |-> IF cliente.existe THEN "Cliente não possui telefone"
                                  ELSE "Cliente não encontrado",
                        called |-> FALSE, sends |-> 0, messageId |-> ""]
            /\ UNCHANGED mensagens
       ELSE LET res == resultado(cliente.telefone, conteudo, accepted, keyId)
            IN  /\ mensagens' = Append(mensagens, Row(conteudo, res))
                /\ last' = [op |-> "mensagensCreate", success |-> res.success,
                            error |-> res.error, called |-> res.called, sends |-> 1,
                            messageId |-> IF res.success THEN res.messageId ELSE ""]
    /\ UNCHANGED <<sock, isConnected, qrCode, authDirExists, credsFile, superseded,
                   attempts, logoutPending, tableState, since, formatado, stockVars,
                   salesVars, configVars>>

\* ---------------------------------------------------- disconnectWhatsApp
\* line 133 with sock = null: the call returns at once and does nothing
DisconnectNoSock ==
    /\ sock = "null"
    /\ tableState' = TableStep(tableState, "logout")
    /\ since' = SinceStep(since, "logout")
    /\ UNCHANGED outside
    /\ last' = Result("logout", TRUE, "", FALSE)
    /\ UNCHANGED <<sock, isConnected, qrCode, authDirExists, credsFile, superseded,
                   attempts, logoutPending>>

\* line 134: sock.logout() is called and the caller suspends; a live socket
\* ends itself with reason loggedOut, which its own handler sees
DisconnectCall ==
    /\ sock # "null"
    /\ logoutPending < MaxLogouts
    /\ logoutPending' = logoutPending + 1
    /\ IF sock \in LiveKinds
       THEN /\ sock' = "closed"
            /\ connectionUpdate(NULL, "close", "loggedOut")
            /\ tableState' = TableStep(tableState, "closedLoggedOut")
            /\ since' = SinceStep(since, "loggedOut")
       ELSE UNCHANGED <<sock, isConnected, qrCode, attempts, authDirExists,
                        tableState, since>>
    /\ UNCHANGED outside
    /\ last' = Step
    /\ UNCHANGED <<superseded, credsFile>>

\* line 134 rejects: sock.logout() failed, disconnectWhatsApp has no catch,
\* so lines 135-144 do not run and the caller gets the rejection
DisconnectThrows ==
    /\ sock # "null"
    /\ tableState' = TableStep(tableState, "logout")
    /\ UNCHANGED outside
    /\ last' = Result("logout", FALSE, "TransportError", TRUE)
    /\ UNCHANGED <<sock, isConnected, qrCode, authDirExists, credsFile, superseded,
                   attempts, logoutPending, since>>

\* lines 135-144: sock.logout() resolved; reset the globals, delete AUTH_DIR
DisconnectFinish ==
    /\ logoutPending > 0
    /\ logoutPending' = logoutPending - 1
    /\ sock' = "null"
    /\ superseded' = IF sock \in LiveKinds
                     THEN [superseded EXCEPT ![sock] = @ + 1] ELSE superseded
    /\ isConnected' = FALSE
    /\ qrCode' = NULL
    /\ authDirExists' = FALSE
    /\ credsFile' = NULL
    /\ tableState' = TableStep(tableState, "logout")
    /\ since' = SinceStep(since, "logout")
    /\ UNCHANGED outside
    /\ last' = Result("logout", TRUE, "", TRUE)
    /\ UNCHANGED attempts

\* ------------------------------------------------------- specification
Next ==
    \/ initWhatsAppConnection
    \/ AuthStateLoaded
    \/ \E pc \in AttemptPcs : AttemptFailed(pc)
    \/ \E pc \in AttemptPcs : SocketMade(pc)
    \/ \E w \in Sources, c \in Codes : TransportQr(w, c)
    \/ \E w \in Sources : TransportOpened(w)
    \/ \E w \in Sources, reason \in Reasons : TransportClosed(w, reason)
    \/ \E w \in Sources, blob \in Blobs, ok \in BOOLEAN : saveCreds(w, blob, ok)
    \/ Send
    \/ StatusRead
    \/ DisconnectNoSock
    \/ DisconnectCall
    \/ DisconnectThrows
    \/ DisconnectFinish

Spec == Init /\ [][Next]_vars

SpecHist == InitHist /\ [][Next]_vars

\* the session manager together with the mensagens.create mutation
NextGateway ==
    \/ Next
    \/ \E cliente \in Clientes, conteudo \in SendTextos, accepted \in BOOLEAN :
          \E keyId \in IF accepted THEN KeyIds ELSE {""} :
              mensagensCreate(cliente, conteudo, accepted, keyId)

SpecGateway == Init /\ [][NextGateway]_vars

\* The program with no caller intervening and a co-operative environment: no
\* explicit connect, no logout, every connect attempt gets through, closes
\* are transient. A suspended attempt is resumed (the awaits resolve), and a
\* socket that keeps being asked to connect eventually opens.
NextHealing ==
    \/ AuthStateLoaded
    \/ \E pc \in AttemptPcs : SocketMade(pc)
    \/ \E w \in Sources, c \in Codes : TransportQr(w, c)
    \/ \E w \in Sources : TransportOpened(w)
    \/ \E w \in Sources, reason \in Reasons \ {"loggedOut"} : TransportClosed(w, reason)
    \/ \E w \in Sources, blob \in Blobs, ok \in BOOLEAN : saveCreds(w, blob, ok)
    \/ Send
    \/ StatusRead

SpecHealing ==
    /\ Init
    /\ [][NextHealing]_vars
    /\ WF_vars(AuthStateLoaded)
    /\ WF_vars(\E pc \in AttemptPcs : SocketMade(pc))
    /\ SF_vars(\E w \in Sources : TransportOpened(w))

\* ================================================================= stock
\* db.ts lines 241-255 and 309-344. The session manager plays no part: its
\* variables stay as they are at load.
sessionVars == <<sock, isConnected, qrCode, authDirExists, credsFile, superseded,
                 attempts, logoutPending, tableState, since>>

InitEstoque == Init /\ credsFile = NULL

\* the calls in flight
InFlight == {c \in CallIds : calls[c].pc # "idle"}

\* lines 241-255: createProduto gives the new product a stock row with
\* quantidade 0
createProduto(p) ==
    /\ ~estoque[p].existe
    /\ estoque' = [estoque EXCEPT ![p] = [existe |-> TRUE, quantidade |-> 0]]
    /\ last' = Step
    /\ UNCHANGED <<sessionVars, formatado, mensagens, salesVars, configVars,
                   movimentacoes, calls>>

\* lines 309-311: a call is made and suspends at its first await
atualizarEstoqueCall(c, p, tipo, q) ==
    /\ calls[c].pc = "idle"
    /\ Len(movimentacoes) + Cardinality(InFlight) < MaxMovimentacoes
    /\ calls' = [calls EXCEPT ![c] = [pc |-> "read", produtoId |-> p, tipo |-> tipo,
                                      quantidade |-> q, lido |-> 0]]
    /\ last' = Step
    /\ UNCHANGED <<sessionVars, formatado, mensagens, salesVars, configVars,
                   estoque, movimentacoes>>

\* lines 319-321 with a saida that adds
novaQuantidade_AlwaysAdds(tipo, atual, q) == atual + q

\* lines 319-321
novaQuantidade(tipo, atual, q) == IF tipo = "entrada" THEN atual + q ELSE atual - q

\* what a call that throws leaves in `last`
Thrown(call, error) ==
    [op |-> "atualizarEstoque", success |-> FALSE, error |-> error, called |-> FALSE,
     produtoId |-> call.produtoId, tipo |-> call.tipo, quantidade |-> call.quantidade,
     quantidadeAnterior |-> 0, quantidadeAtual |-> 0]

\* lines 314-325: getEstoquePorProduto reads the row; the call throws
\* without a row, or when the new quantity would be negative
atualizarEstoqueRead(c) ==
    /\ calls[c].pc = "read"
    /\ LET call == calls[c]
           row == estoque[call.produtoId]
       IN  IF ~row.existe
           THEN /\ calls' = [calls EXCEPT ![c] = NoCall]
                /\ last' = Thrown(call, "Produto não encontrado no estoque")
           ELSE IF novaQuantidade(call.tipo, row.quantidade, call.quantidade) < 0
           THEN /\ calls' = [calls EXCEPT ![c] = NoCall]
                /\ last' = Thrown(call, "Quantidade insuficiente em estoque")
           ELSE /\ calls' = [calls EXCEPT ![c].pc = "update", ![c].lido = row.quantidade]
                /\ last' = Step
    /\ UNCHANGED <<sessionVars, formatado, mensagens, salesVars, configVars,
                   estoque, movimentacoes>>

\* lines 328-330: the row is given the quantity computed from what was read
atualizarEstoqueUpdate(c) ==
    /\ calls[c].pc = "update"
    /\ LET call == calls[c]
       IN  /\ estoque' = [estoque EXCEPT ![call.produtoId].quantidade =
                              novaQuantidade(call.tipo, call.lido, call.quantidade)]
           /\ calls' = [calls EXCEPT ![c].pc = "insert"]
    /\ last' = Step
    /\ UNCHANGED <<sessionVars, formatado, mensagens, salesVars, configVars,
                   movimentacoes>>

\* lines 333-343: the movement is appended and the call returns
atualizarEstoqueInsert(c) ==
    /\ calls[c].pc = "insert"
    /\ LET call == calls[c]
           nova == novaQuantidade(call.tipo, call.lido, call.quantidade)
       IN  /\ movimentacoes' = Append(movimentacoes,
                   [produtoId |-> call.produtoId, tipo |-> call.tipo,
                    quantidade |-> call.quantidade, quantidadeAtual |-> nova])
           /\ last' = [op |-> "atualizarEstoque", success |-> TRUE, error |-> "",
                       called |-> FALSE,
                       produtoId |-> call.produtoId, tipo |-> call.tipo,
                       quantidade |-> call.quantidade,
                       quantidadeAnterior |-> call.lido, quantidadeAtual |-> nova]
    /\ calls' = [calls EXCEPT ![c] = NoCall]
    /\ UNCHANGED <<sessionVars, formatado, mensagens, salesVars, configVars,
                   estoque>>

Tipos == {"entrada", "saida"}

\* calls overlap: each runs from await to await, in any interleaving
NextEstoque ==
    \/ \E p \in Produtos : createProduto(p)
    \/ \E c \in CallIds, p \in Produtos, tipo \in Tipos, q \in Quantidades :
          atualizarEstoqueCall(c, p, tipo, q)
    \/ \E c \in CallIds : atualizarEstoqueRead(c)
    \/ \E c \in CallIds : atualizarEstoqueUpdate(c)
    \/ \E c \in CallIds : atualizarEstoqueInsert(c)

SpecEstoque == InitEstoque /\ [][NextEstoque]_vars

\* calls one at a time: a call is made only when none is in flight
NextEstoqueSerial ==
    \/ \E p \in Produtos : createProduto(p)
    \/ \E c \in CallIds, p \in Produtos, tipo \in Tipos, q \in Quantidades :
          InFlight = {} /\ atualizarEstoqueCall(c, p, tipo, q)
    \/ \E c \in CallIds : atualizarEstoqueRead(c)
    \/ \E c \in CallIds : atualizarEstoqueUpdate(c)
    \/ \E c \in CallIds : atualizarEstoqueInsert(c)

SpecEstoqueSerial == InitEstoque /\ [][NextEstoqueSerial]_vars

\* the stock the movements of product p add up to, from the 0 of createProduto
RECURSIVE Net(_, _)
Net(movs, p) ==
    IF movs = <<>> THEN 0
    ELSE LET m == Head(movs)
         IN  (IF m.produtoId # p THEN 0
              ELSE IF m.tipo = "entrada" THEN m.quantidade ELSE 0 - m.quantidade)
             + Net(Tail(movs), p)

\* ================================================================= sales
\* db.ts lines 389-415.
\* the items a sale can be made of (the router asks for at least one)
Itens ==
    UNION {[1..n -> [produtoId : Produtos, quantidade : Quantidades]] : n \in 1..MaxItens}

\* Lines 398-412: the loop over the items left, given the tables as the
\* items before them left them (est, movs, rows): the item row is inserted,
\* then atualizarEstoque (lines 314-343, no other call overlapping) takes
\* the quantity out of the stock, and throws without a stock row or with
\* too little stock, which ends the loop and createVenda with it. Nothing
\* written before the throw is taken back.
RECURSIVE BaixaItens(_, _, _, _, _)
BaixaItens(itens, vendaId, est, movs, rows) ==
    IF itens = <<>>
    THEN [ok |-> TRUE, error |-> "", estoque |-> est, movimentacoes |-> movs,
          itensVenda |-> rows]
    ELSE LET item == Head(itens)
             rows1 == Append(rows, [vendaId |-> vendaId, produtoId |-> item.produtoId,
                                    quantidade |-> item.quantidade])
             row == est[item.produtoId]
             nova == novaQuantidade("saida", row.quantidade, item.quantidade)
         IN  IF ~row.existe
             THEN [ok |-> FALSE, error |-> "Produto não encontrado no estoque",
                   estoque |-> est, movimentacoes |-> movs, itensVenda |-> rows1]
             ELSE IF nova < 0
             THEN [ok |-> FALSE, error |-> "Quantidade insuficiente em estoque",
                   estoque |-> est, movimentacoes |-> movs, itensVenda |-> rows1]
             ELSE BaixaItens(Tail(itens), vendaId,
                             [est EXCEPT ![item.produtoId].quantidade = nova],
                             Append(movs, [produtoId |-> item.produtoId, tipo |-> "saida",
                                           quantidade |-> item.quantidade,
                                           quantidadeAtual |-> nova]),
                             rows1)

\* lines 389-415: the sale row is inserted, then the items one by one; the
\* call returns the id of the sale or throws what atualizarEstoque threw
createVenda(itens) ==
    /\ vendas < MaxVendas
    /\ Len(movimentacoes) + Len(itens) <= MaxMovimentacoes
    /\ LET vendaId == vendas + 1
           res == BaixaItens(itens, vendaId, estoque, movimentacoes, itensVenda)
       IN  /\ vendas' = vendaId
           /\ itensVenda' = res.itensVenda
           /\ estoque' = res.estoque
           /\ movimentacoes' = res.movimentacoes
           /\ last' = [op |-> "createVenda", success |-> res.ok, error |-> res.error,
                       called |-> FALSE, vendaId |-> vendaId, itens |-> itens]
    /\ UNCHANGED <<sessionVars, formatado, mensagens, configVars, calls>>

\* sales, with the stock filled by atualizarEstoque calls made one at a time
NextVenda ==
    \/ \E p \in Produtos : createProduto(p)
    \/ \E c \in CallIds, p \in Produtos, tipo \in Tipos, q \in Quantidades :
          InFlight = {} /\ atualizarEstoqueCall(c, p, tipo, q)
    \/ \E c \in CallIds : atualizarEstoqueRead(c)
    \/ \E c \in CallIds : atualizarEstoqueUpdate(c)
    \/ \E c \in CallIds : atualizarEstoqueInsert(c)
    \/ \E itens \in Itens : InFlight = {} /\ createVenda(itens)

SpecVenda == InitEstoque /\ [][NextVenda]_vars

\* the quantity of product p the items ask for
RECURSIVE Pedido(_, _)
Pedido(itens, p) ==
    IF itens = <<>> THEN 0
    ELSE (IF Head(itens).produtoId = p THEN Head(itens).quantidade ELSE 0)
         + Pedido(Tail(itens), p)

\* ======================================================== configuration
\* db.ts lines 661-680.
\* the configurations the calls store
Configs == {"instance-1", "instance-2"}

\* the upserts in flight
Upserting == {u \in UpsertIds : upserts[u].pc # "idle"}

\* lines 669-671: a call is made and suspends at its first await
upsertConfigWhatsappCall(u, config) ==
    /\ upserts[u].pc = "idle"
    /\ upserts' = [upserts EXCEPT ![u] = [pc |-> "read", config |-> config, existing |-> 0]]
    /\ UNCHANGED <<sessionVars, formatado, mensagens, stockVars, salesVars,
                   configWhatsapp, last>>

\* lines 661-667 and 673: getConfigWhatsapp selects one row with limit(1)
\* and no order, so any row of the table may be the one returned; id is the
\* id of that row, 0 when the table is empty
upsertConfigWhatsappRead(u, id) ==
    /\ upserts[u].pc = "read"
    /\ IF configWhatsapp = <<>> THEN id = 0 ELSE id \in 1..Len(configWhatsapp)
    /\ upserts' = [upserts EXCEPT ![u].pc = "write", ![u].existing = id]
    /\ UNCHANGED <<sessionVars, formatado, mensagens, stockVars, salesVars,
                   configWhatsapp, last>>

\* lines 675-679: the row that was read is updated, or, when none was read,
\* a row is inserted; the call returns
upsertConfigWhatsappWrite(u) ==
    /\ upserts[u].pc = "write"
    /\ LET call == upserts[u]
       IN  /\ configWhatsapp' =
                 IF call.existing # 0
                 THEN [configWhatsapp EXCEPT ![call.existing] = call.config]
                 ELSE Append(configWhatsapp, call.config)
           /\ last' = [op |-> "upsertConfigWhatsapp", success |-> TRUE, error |-> "",
                       called |-> FALSE, config |-> call.config]
    /\ upserts' = [upserts EXCEPT ![u] = NoUpsert]
    /\ UNCHANGED <<sessionVars, formatado, mensagens, stockVars, salesVars>>

\* calls overlap: each runs from await to await, in any interleaving
NextConfig ==
    \/ \E u \in UpsertIds, config \in Configs : upsertConfigWhatsappCall(u, config)
    \/ \E u \in UpsertIds, id \in 0..MaxUpserts : upsertConfigWhatsappRead(u, id)
    \/ \E u \in UpsertIds : upsertConfigWhatsappWrite(u)

SpecConfig == InitEstoque /\ [][NextConfig]_vars

\* ================================================================ claims
\* C1..C10 are stated of Spec, SpecHist and SpecHealing.

\* C1: at most one Transport instance is live in every reachable state,
\* whatever explicit connect calls, closes and reconnects interleave.
C1_AtMostOneLiveTransport == NumLive <= 1

\* C2: a send while the state is not Open (isConnected false) returns the
\* NotConnected failure and does not call the transport; a send that
\* returns success was made while the state was Open.
C2_SendNeedsOpen ==
    last.op = "send" =>
        /\ ~isConnected =>
              (~last.success /\ last.error = "NotConnected" /\ ~last.called)
        /\ last.success => (isConnected /\ last.called)

\* C2 witness: a send was rejected while a socket is held but not open
C2_Witness ==
    /\ last.op = "send"
    /\ last.error = "NotConnected"
    /\ sock \in LiveKinds
    /\ ~isConnected

\* C3: a Transient close starts a connect attempt by itself; a LoggedOut
\* close starts none, and from then on, until an explicit connect,
\* connected stays false and no new Transport is created.
C3_ClosePolicy ==
    [][ /\ last'.op = "closedTransient" => NumAttempts' = NumAttempts + 1
        /\ last'.op = "closedLoggedOut" => (NumAttempts' = NumAttempts /\ ~isConnected')
        /\ (since = "loggedOut" /\ since' = "loggedOut") =>
              (~isConnected' /\ NumAttempts' <= NumAttempts /\ NumLive' <= NumLive)
      ]_vars

\* C4: once logout has returned, status().connected is false,
\* status().qrCode is null and the credential store is empty.
C4_LogoutClears ==
    (last.op = "logout" /\ last.success) =>
        /\ getWhatsAppStatus.connected = FALSE
        /\ getWhatsAppStatus.qrCode = NULL
        /\ credsFile = NULL

\* C5: the pairing code is non-null if and only if the connection state is
\* AwaitingPairing.
C5_PairingCodeIffAwaitingPairing ==
    (qrCode # NULL) <=> (ConnState = "AwaitingPairing")

\* C6: after every sequence of transport events and public calls the
\* implementation's connection state is the one the transition table
\* predicts for that sequence.
C6_TableConformance ==
    tableState \notin {"Off", "Unspecified"} => ConnState = tableState

\* C7: after a Transient close that arrived in state Open, connected
\* eventually becomes true again with no caller intervening.
C7_SelfHeals == (last.op = "closedTransient" /\ last.success) ~> isConnected

\* C7 witness: the close arrived in Open and the handler has re-invoked
\* initWhatsAppConnection
C7_Witness ==
    /\ last.op = "closedTransient"
    /\ last.success
    /\ ~isConnected
    /\ attempts["auth"] = 1

\* C8: a failure inside the automatic reconnect is retried: after a
\* Transient close (and no logout, LoggedOut close or explicit connect
\* since) the manager is never left Disconnected with nothing in flight.
C8_ReconnectFailureRetried == since = "transient" => ConnState # "Disconnected"

\* C9: a logout that returns while a connect attempt is in flight tears the
\* attempt down: from then on, until the next explicit connect, no Transport
\* is live and connected is false.
C9_LogoutCancelsConnect ==
    since = "logoutDuringConnect" => (NumLive = 0 /\ ~isConnected)

\* C10: when sock.logout() fails, logout still deletes the credentials,
\* clears the pairing code and resets the state to Disconnected.
C10_LogoutBestEffort ==
    (last.op = "logout" /\ last.error = "TransportError") =>
        (credsFile = NULL /\ qrCode = NULL /\ sock = "null" /\ ConnState = "Disconnected")


\* C11: formatting a phone number is idempotent: formatting an already
\* formatted number gives the same number back; and "(88) 99671-0011" and
\* "5588996710011" both format to "5588996710011".
C11_FormatIdempotent ==
    /\ formatado.vezes >= 2 => formatado.valor = formatado.antes
    /\ (formatado.vezes >= 1
           /\ formatado.telefone \in {TelefoneComMascara, TelefoneCompleto})
          => formatado.valor = TelefoneCompleto

\* a number that lacked the country code has been formatted twice
C11_Witness ==
    /\ formatado.vezes = 2
    /\ ~StartsWith55(SoDigitos(formatado.telefone))
    /\ formatado.telefone # SoDigitos(formatado.telefone)


\* C12 as stated: a send the transport accepted returns exactly the
\* identifier the transport gave, and the transport was called with the
\* formatted number and the caller's text.
C12_ReturnsTransportId ==
    (last.op = "send" /\ last.success) =>
        /\ last.messageId = last.keyId
        /\ last.to.user = telefoneFormatado(last.telefone)
        /\ last.text = last.mensagem

\* C12, amended: a send the transport accepted returns the identifier the
\* transport gave, or "sent" when the transport's result carries none, and
\* the transport was called with the formatted number ("88 99671-0011" as
\* 5588996710011) and the caller's text.
C12_ReturnsTransportIdOrSent ==
    (last.op = "send" /\ last.success) =>
        /\ isConnected
        /\ last.keyId # "" => last.messageId = last.keyId
        /\ last.keyId = "" => last.messageId = "sent"
        /\ last.to = [user |-> ComCodigoPais(SoDigitos(last.telefone)),
                      server |-> "s.whatsapp.net"]
        /\ last.telefone = TelefoneComEspaco => last.to.user = TelefoneCompleto
        /\ last.text = last.mensagem

\* "88 99671-0011" has been sent to and the transport gave an identifier
C12_Witness ==
    /\ last.op = "send" /\ last.success
    /\ last.telefone = TelefoneComEspaco
    /\ last.keyId # ""
    /\ last.mensagem # ""

\* C13: a send always returns a result; when sock.sendMessage fails the
\* result is a failure carrying an error, and the connection state and the
\* pairing code are what they were before the send.
C13_SendNeverThrows ==
    [][last'.op = "send" =>
          /\ last'.success \in BOOLEAN
          /\ ~last'.success =>
                /\ last'.error # ""
                /\ isConnected' = isConnected
                /\ qrCode' = qrCode
                /\ ConnState' = ConnState
                /\ sock' = sock]_vars

\* a send the transport failed
C13_Witness ==
    last.op = "send" /\ ~last.success /\ last.called /\ isConnected


C15_StatusShowsLatestCode ==
    [][/\ (last'.op = "pairingCode" /\ ~isConnected) =>
             getWhatsAppStatus' = [connected |-> FALSE, qrCode |-> last'.code]
       /\ (qrCode # NULL /\ qrCode' # qrCode) =>
             (last'.op \in {"pairingCode", "logout"} \/ isConnected')
       /\ last'.op = "status" =>
             UNCHANGED <<sock, isConnected, qrCode, authDirExists, credsFile,
                         superseded, attempts, logoutPending>>]_vars

\* nothing is persisted, the socket of the first connect has reported a
\* second pairing code, and the status has been read since
C15_Witness ==
    /\ credsFile = NULL
    /\ sock = "pairing" /\ NumSuperseded = 0
    /\ last.op = "status"
    /\ getWhatsAppStatus = [connected |-> FALSE, qrCode |-> MaxCode]


\* C16: a mensagens.create request that reaches the send step calls
\* enviarMensagemBaileys once and stores one row: after a successful send a
\* row with status "enviada", a time of sending and the identifier
\* returned, and the request returns success; after a failed send a row
\* with status "erro" and no time of sending, and the request fails with the
\* error of the send.
C16_OneSendOneRow ==
    [][(last'.op = "mensagensCreate" /\ last'.sends > 0) =>
          /\ last'.sends = 1
          /\ Len(mensagens') = Len(mensagens) + 1
          /\ LET row == mensagens'[Len(mensagens')]
             IN  /\ last'.success =>
                       /\ row.status = "enviada"
                       /\ row.dataEnvio # "null"
                       /\ row.messageId = last'.messageId
                 /\ ~last'.success =>
                       /\ row.status = "erro"
                       /\ row.dataEnvio = "null"
                       /\ last'.error # ""]_vars


\* C17: events of a superseded socket never change the session: isConnected
\* is true only if the socket the module holds in sock is itself open.
C17_ConnectedMeansHeldSocketOpen == isConnected => sock = "open"

\* C18: getWhatsAppStatus never returns connected = true together with a
\* pairing code, whatever the order of the qr, open and close events.
C18_NeverConnectedWithCode ==
    ~(getWhatsAppStatus.connected /\ getWhatsAppStatus.qrCode # NULL)


\* C19: under any interleaving of atualizarEstoque calls the quantity of
\* every product is never negative, and no update is lost: once no call is
\* in flight the quantity is the initial 0 plus the entradas that succeeded
\* minus the saidas that succeeded.
C19_NonNegativeNoLostUpdate ==
    \A p \in Produtos :
        /\ estoque[p].quantidade >= 0
        /\ InFlight = {} => estoque[p].quantidade = Net(movimentacoes, p)

\* C20: with calls made one at a time, a call that returns has appended one
\* movement whose quantidadeAtual is the stock after the call, and returns
\* quantidadeAnterior and quantidadeAtual that differ by the quantity asked
\* (plus for an entrada, minus for a saida); a call that throws (no stock
\* row, or a saida larger than the stock) changes neither the stock nor the
\* movements.
C20_SerialCallExact ==
    [][last'.op = "atualizarEstoque" =>
          IF last'.success
          THEN /\ Len(movimentacoes') = Len(movimentacoes) + 1
               /\ LET m == movimentacoes'[Len(movimentacoes')]
                  IN  /\ m.quantidadeAtual = estoque'[last'.produtoId].quantidade
                      /\ m.quantidadeAtual = last'.quantidadeAtual
                      /\ m.produtoId = last'.produtoId
               /\ last'.quantidadeAtual - last'.quantidadeAnterior =
                      (IF last'.tipo = "entrada" THEN last'.quantidade
                       ELSE 0 - last'.quantidade)
               /\ last'.quantidadeAtual >= 0
               /\ estoque'[last'.produtoId].quantidade = Net(movimentacoes', last'.produtoId)
          ELSE /\ estoque' = estoque
               /\ movimentacoes' = movimentacoes
               /\ \/ ~estoque[last'.produtoId].existe
                  \/ (last'.tipo = "saida"
                        /\ last'.quantidade > estoque[last'.produtoId].quantidade)]_vars

\* a saida has succeeded after an entrada, and a later saida has failed
C20_Witness ==
    /\ last.op = "atualizarEstoque" /\ ~last.success /\ last.tipo = "saida"
    /\ Len(movimentacoes) = 2
    /\ movimentacoes[2].tipo = "saida"
    /\ estoque[1].existe


\* C21: createVenda is all-or-nothing: a call that returns has recorded the
\* sale row, a row for each item, and for each item one decrement of the
\* stock and one saida movement; a call that fails because the stock update
\* of an item fails leaves no sale row, no item row, no stock change and no
\* movement.
C21_SaleAllOrNothing ==
    [][last'.op = "createVenda" =>
          IF last'.success
          THEN /\ vendas' = vendas + 1
               /\ Len(itensVenda') = Len(itensVenda) + Len(last'.itens)
               /\ Len(movimentacoes') = Len(movimentacoes) + Len(last'.itens)
               /\ \A i \in 1..Len(last'.itens) :
                     /\ itensVenda'[Len(itensVenda) + i].vendaId = last'.vendaId
                     /\ movimentacoes'[Len(movimentacoes) + i].tipo = "saida"
                     /\ movimentacoes'[Len(movimentacoes) + i].quantidade =
                            last'.itens[i].quantidade
               /\ \A p \in Produtos :
                     estoque'[p].quantidade =
                         estoque[p].quantidade - Pedido(last'.itens, p)
          ELSE /\ vendas' = vendas
               /\ itensVenda' = itensVenda
               /\ estoque' = estoque
               /\ movimentacoes' = movimentacoes]_vars


\* C22: the configWhatsapp table never holds more than one row, whatever
\* the interleaving of the upsertConfigWhatsapp calls; once a call has
\* completed there is exactly one row, and it carries the config of the
\* call that completed last.
C22_SingleConfigRow ==
    /\ Len(configWhatsapp) <= 1
    /\ last.op = "upsertConfigWhatsapp" =>
          (Len(configWhatsapp) = 1 /\ configWhatsapp[1] = last.config)

====
